---- MODULE Spec2Model ----
(***************************************************************************)
(* Model of yaque's recovery module (src/src/recovery.rs): stale-lock      *)
(* reclamation (unlock, unlock_for_sending, unlock_for_receiving,          *)
(* unlock_queue) and reconstruction of the sender cursor                   *)
(* (guess_send_metadata), run by one recovery caller against a queue       *)
(* directory that other processes (senders, receivers, another recovery    *)
(* tool) share.                                                            *)
(*                                                                         *)
(* Strings that the code formats or parses (lock file contents, file       *)
(* names) are sequences of one-character strings.                          *)
(***************************************************************************)
EXTENDS Integers, Sequences, FiniteSets, TLC

\* ------------------------------------------------------------------ bounds

\* Segment sequence numbers on disk range over 0..MaxSeg.
MaxSeg == 2
\* Segment files are 0..MaxLen bytes long.
MaxLen == 1
\* Process identifiers of the other processes are FirstPid..FirstPid+NumOthers-1;
\* the recovery caller's own identifier follows them.
FirstPid == 9
NumOthers == 2
\* Other recovery tools that run unlock on one lock file at the same time.
NumTools == 2

OtherPids == FirstPid..(FirstPid + NumOthers - 1)
ToolPid == FirstPid + NumOthers
SegNums == 0..MaxSeg
Lens == 0..MaxLen

\* ----------------------------------------------------- text: format, parse

Digits == <<"0", "1", "2", "3", "4", "5", "6", "7", "8", "9">>

IsDigit(c) == \E i \in 1..10 : Digits[i] = c

DigitVal(c) == (CHOOSE i \in 1..10 : Digits[i] = c) - 1

\* Display of an unsigned integer, as format!("{}", n) prints it.
RECURSIVE ToDecimal(_)
ToDecimal(n) ==
    IF n < 10 THEN <<Digits[n + 1]>>
    ELSE ToDecimal(n \div 10) \o <<Digits[(n % 10) + 1]>>

RECURSIVE DigitsValue(_)
DigitsValue(s) ==
    IF s = <<>> THEN 0
    ELSE 10 * DigitsValue(SubSeq(s, 1, Len(s) - 1)) + DigitVal(s[Len(s)])

AllDigits(s) == s # <<>> /\ \A i \in 1..Len(s) : IsDigit(s[i])

\* A parse yields the set holding its value, or the empty set when it fails.

\* str::parse::<u64>: an optional "+", then one or more decimal digits.
ParseU64(s) ==
    LET body == IF s # <<>> /\ s[1] = "+" THEN Tail(s) ELSE s
    IN IF AllDigits(body) THEN {DigitsValue(body)} ELSE {}

\* str::parse::<sysinfo::Pid> (a signed integer on Linux): an optional sign,
\* then one or more decimal digits.
ParsePid(s) ==
    LET signed == s # <<>> /\ s[1] \in {"+", "-"}
        body == IF signed THEN Tail(s) ELSE s
    IN IF ~AllDigits(body) THEN {}
       ELSE IF signed /\ s[1] = "-" THEN {0 - DigitsValue(body)}
       ELSE {DigitsValue(body)}

\* A byte sequence that is not valid UTF-8, as one unit.
BadByte == "<FF>"

IsUtf8(s) == \A i \in 1..Len(s) : s[i] # BadByte

\* ----------------------------------------------------------- file names

Dot == "."

HasDot(name) == \E i \in 2..Len(name) : name[i] = Dot

LastDot(name) == CHOOSE i \in 2..Len(name) :
    name[i] = Dot /\ \A j \in (i + 1)..Len(name) : name[j] # Dot

\* Path::extension: what follows the final dot of the file name, if any.
Extension(name) ==
    IF HasDot(name) THEN SubSeq(name, LastDot(name) + 1, Len(name)) ELSE <<>>

\* Path::file_stem: what precedes the final dot of the file name.
FileStem(name) ==
    IF HasDot(name) THEN SubSeq(name, 1, LastDot(name) - 1) ELSE name

QExt == <<"q">>

\* format!("{}.q", segment)
SegmentFilename(n) == ToDecimal(n) \o <<Dot>> \o QExt

send_lock_filename == <<"s", "e", "n", "d", Dot, "l", "o", "c", "k">>

recv_lock_filename == <<"r", "e", "c", "v", Dot, "l", "o", "c", "k">>

send_metadata_filename ==
    <<"s", "e", "n", "d", "-", "m", "e", "t", "a", "d", "a", "t", "a">>

\* A file with the segment extension whose stem is no integer, and a file
\* with an integer stem and another extension.
FooQ == <<"f", "o", "o", Dot, "q">>
NineTxt == <<"9", Dot, "t", "x", "t">>

ExtraNames == {FooQ, NineTxt}

LockFilename(role) ==
    IF role = "send" THEN send_lock_filename ELSE recv_lock_filename

Roles == {"send", "recv"}

\* ------------------------------------------------------------ lock files

\* The four opaque bytes that precede the owner's identifier.
LockPrefix == <<"p", "i", "d", "=">>

PrefixLen == 4

\* What the lock guard writes for owner p.
LockContents(p) == LockPrefix \o ToDecimal(p)

NoFile == [exists |-> FALSE, contents |-> <<>>]

LockFile(c) == [exists |-> TRUE, contents |-> c]

\* Malformed lock files: an identifier that is no number, a file cut short
\* of its prefix, bytes that are no text.
MalformedContents ==
    {LockPrefix \o <<"x">>, <<"p", "i">>, LockPrefix \o <<BadByte>>}

LockStates ==
    {NoFile} \cup {LockFile(LockContents(p)) : p \in OtherPids}
             \cup {LockFile(c) : c \in MalformedContents}

WellFormedLockStates ==
    {NoFile} \cup {LockFile(LockContents(p)) : p \in OtherPids}

\* ------------------------------------------------------------------ state

Ops == {"unlock_for_sending", "unlock_for_receiving", "unlock_queue",
        "guess_send_metadata"}

\* Filesystem operations that can fail for reasons outside the directory's
\* contents (permissions, device errors); at most one is failing.
Faults == {"none", "read_dir", "open_send", "save"}

VARIABLES
    files,        \* directory entries other than locks and state: name -> length
    lock,         \* role -> the role's lock file
    sendMeta,     \* the persisted sender cursor
    alive,        \* the other processes that are running
    ioFault,      \* the filesystem operation that fails, if any
    pending,      \* role -> other recovery tools that found the owner dead
    pc,           \* the caller's position
    op,           \* the operation the caller runs
    role,         \* unlock: the role whose lock file is examined
    owner_pid,    \* unlock: the parsed owner identifier
    guard,        \* guess_send_metadata: `lock` is live
    max_segment,  \* guess_send_metadata: max_segment
    position,     \* guess_send_metadata: position
    result,       \* what the call returned
    snap,         \* history: the directory as the call found it
    trace,        \* history: the call's effects, in order
    prevCursor,   \* history: cursor the last guess persisted, files unchanged since
    prevResult,   \* history: result of the call before, nothing changed since
    prevOp        \* history: the operation of the call before

vars == <<files, lock, sendMeta, alive, ioFault, pending, pc, op, role,
          owner_pid, guard, max_segment, position, result, snap, trace,
          prevCursor, prevResult, prevOp>>

fsVars == <<files, lock, sendMeta, alive, ioFault, pending>>

localVars == <<owner_pid, guard, max_segment, position>>

NoMeta == [exists |-> FALSE, segment |-> 0, position |-> 0]

\* QueueState { segment, position, ..QueueState::default() }
QueueState(seg, pos) == [exists |-> TRUE, segment |-> seg, position |-> pos]

NoResult == [kind |-> "none", pid |-> {}, path |-> <<>>]

Ok == [kind |-> "Ok", pid |-> {}, path |-> <<>>]

\* io::Error of the given kind.
Err(kind) == [kind |-> kind, pid |-> {}, path |-> <<>>]

\* io::Error::new(io::ErrorKind::Other,
\*     format!("process {} is still locking `{:?}`", owner_pid, lock_filename))
StillLocking(p, path) == [kind |-> "Other", pid |-> {p}, path |-> path]

\* A panic: the call does not return.
Panic == [kind |-> "Panic", pid |-> {}, path |-> <<>>]

Max(S) == CHOOSE x \in S : \A y \in S : y <= x

NoSnap == [files |-> <<>>, lock |-> [r \in Roles |-> NoFile], sendMeta |-> NoMeta]

\* -------------------------------------------------------------- directory

\* The names read_dir yields: segment and other files, the lock files that
\* exist and the persisted state file.
DirEntries ==
    DOMAIN files
        \cup {LockFilename(r) : r \in {x \in Roles : lock[x].exists}}
        \cup (IF sendMeta.exists THEN {send_metadata_filename} ELSE {})

\* Directories: segment files of any length, and at most one other file.
SegmentDirectories ==
    UNION {[S -> Lens] : S \in SUBSET {SegmentFilename(n) : n \in SegNums}}

Directories ==
    SegmentDirectories
        \cup {d @@ (x :> 0) : d \in SegmentDirectories, x \in ExtraNames}

\* The process table: system.get_processes().get(&pid).is_some()
IsRunning(p) == p = ToolPid \/ p \in alive

\* The caller before its first call.
InitCaller ==
    /\ pending = [r \in Roles |-> 0]
    /\ pc = "idle"
    /\ op = "none"
    /\ role = "send"
    /\ owner_pid = {}
    /\ guard = FALSE
    /\ max_segment = 0
    /\ position = 0
    /\ result = NoResult
    /\ snap = NoSnap
    /\ trace = <<>>
    /\ prevCursor = NoMeta
    /\ prevResult = NoResult
    /\ prevOp = "none"

\* The lock operations' start states: any two lock files, any set of
\* running processes, an empty or a one-segment directory.
InitUnlock ==
    /\ files \in {d \in Directories : DOMAIN d \subseteq {SegmentFilename(0)}}
    /\ lock \in [Roles -> LockStates]
    /\ ioFault = "none"
    /\ sendMeta \in {NoMeta, QueueState(0, 0)}
    /\ alive \in SUBSET OtherPids
    /\ InitCaller

\* The reconstruction's start states: any segment files and either a file
\* that is no segment, or a send lock that is taken, or one filesystem
\* operation that fails.
InitGuess ==
    /\ files \in Directories
    /\ lock \in {l \in [Roles -> WellFormedLockStates] : l["recv"] = NoFile}
    /\ ioFault \in Faults
    /\ Cardinality({x \in ExtraNames : x \in DOMAIN files})
         + (IF lock["send"].exists THEN 1 ELSE 0)
         + (IF ioFault = "none" THEN 0 ELSE 1) <= 1
    /\ sendMeta \in {NoMeta, QueueState(0, 0)}
    /\ alive \in SUBSET OtherPids
    /\ InitCaller

\* The start states of the runs checked for termination: empty segment
\* files, either a file that is no segment or one filesystem operation that
\* fails, and any two lock files.
InitLive ==
    /\ files \in {d \in Directories : \A x \in DOMAIN d : d[x] = 0}
    /\ lock \in [Roles -> LockStates]
    /\ ioFault \in Faults
    /\ (ioFault = "none" \/ DOMAIN files \cap ExtraNames = {})
    /\ sendMeta = NoMeta
    /\ alive \in SUBSET OtherPids
    /\ InitCaller

\* The start states of the concurrent runs: a queue that its senders have
\* written, well-formed lock files, a working filesystem.
InitConc ==
    /\ files \in {d \in Directories :
                    /\ DOMAIN d \subseteq {SegmentFilename(0)}
                    /\ \A x \in DOMAIN d : d[x] = 0}
    /\ lock \in [Roles -> WellFormedLockStates]
    /\ ioFault = "none"
    /\ sendMeta = NoMeta
    /\ alive \in SUBSET OtherPids
    /\ InitCaller

\* ------------------------------------------------------------ the caller

\* The caller invokes one of the four public operations.
Invoke(o) ==
    /\ pc = "idle"
    /\ op' = o
    /\ pc' = IF o = "guess_send_metadata" THEN "try_lock" ELSE "read"
    /\ role' = IF o = "unlock_for_receiving" THEN "recv" ELSE "send"
    /\ trace' = <<>>
    /\ result' = NoResult
    /\ UNCHANGED <<fsVars, localVars>>

\* A call of a serialised run; the history keeps what the call found.
Call(o) ==
    /\ Invoke(o)
    /\ snap' = [files |-> files, lock |-> lock, sendMeta |-> sendMeta]
    /\ UNCHANGED <<prevCursor, prevResult, prevOp>>

\* The call ends with result r.
Finish(r) ==
    /\ pc' = "done"
    /\ result' = r

\* UnlockRead that returns the parse failure as an error instead of panicking.
UnlockRead_ParseErrorReturned ==
    /\ pc = "read"
    /\ LET f == lock[role]
           rest == SubSeq(f.contents, PrefixLen + 1, Len(f.contents))
       IN IF ~f.exists THEN
              Finish(Err("NotFound")) /\ UNCHANGED owner_pid
          ELSE IF ~IsUtf8(f.contents) THEN
              Finish(Err("InvalidData")) /\ UNCHANGED owner_pid
          ELSE IF Len(f.contents) < PrefixLen \/ ParsePid(rest) = {} THEN
              Finish(Err("InvalidData")) /\ UNCHANGED owner_pid
          ELSE
              /\ owner_pid' = ParsePid(rest)
              /\ pc' = "query"
              /\ UNCHANGED result
    /\ UNCHANGED <<fsVars, op, role, guard, max_segment, position, snap,
                   trace, prevCursor, prevResult, prevOp>>

\* UnlockRead that takes an absent lock file for an unlocked queue: success.
UnlockRead_AbsentIsOk ==
    /\ pc = "read"
    /\ LET f == lock[role]
           rest == SubSeq(f.contents, PrefixLen + 1, Len(f.contents))
       IN IF ~f.exists THEN
              Finish(Ok) /\ UNCHANGED owner_pid
          ELSE IF ~IsUtf8(f.contents) THEN
              Finish(Err("InvalidData")) /\ UNCHANGED owner_pid
          ELSE IF Len(f.contents) < PrefixLen \/ ParsePid(rest) = {} THEN
              Finish(Panic) /\ UNCHANGED owner_pid
          ELSE
              /\ owner_pid' = ParsePid(rest)
              /\ pc' = "query"
              /\ UNCHANGED result
    /\ UNCHANGED <<fsVars, op, role, guard, max_segment, position, snap,
                   trace, prevCursor, prevResult, prevOp>>

\* unlock: read_to_string(&lock_filename)?, then contents[4..].parse().expect()
UnlockRead ==
    /\ pc = "read"
    /\ LET f == lock[role]
           rest == SubSeq(f.contents, PrefixLen + 1, Len(f.contents))
       IN IF ~f.exists THEN
              Finish(Err("NotFound")) /\ UNCHANGED owner_pid
          ELSE IF ~IsUtf8(f.contents) THEN
              Finish(Err("InvalidData")) /\ UNCHANGED owner_pid
          ELSE IF Len(f.contents) < PrefixLen \/ ParsePid(rest) = {} THEN
              Finish(Panic) /\ UNCHANGED owner_pid
          ELSE
              /\ owner_pid' = ParsePid(rest)
              /\ pc' = "query"
              /\ UNCHANGED result
    /\ UNCHANGED <<fsVars, op, role, guard, max_segment, position, snap,
                   trace, prevCursor, prevResult, prevOp>>

\* UnlockQuery with the liveness test inverted.
UnlockQuery_Inverted ==
    /\ pc = "query"
    /\ LET p == CHOOSE x \in owner_pid : TRUE
       IN /\ trace' = Append(trace, IF p = ToolPid \/ p \in alive
                                    THEN "owner_running" ELSE "owner_dead")
          /\ IF ~IsRunning(p) THEN
                 Finish(StillLocking(p, LockFilename(role)))
             ELSE
                 pc' = "remove" /\ UNCHANGED result
    /\ UNCHANGED <<fsVars, op, role, localVars, snap, prevCursor,
                   prevResult, prevOp>>

\* UnlockQuery that goes on to the removal whatever the process table says.
UnlockQuery_NoCheck ==
    /\ pc = "query"
    /\ LET p == CHOOSE x \in owner_pid : TRUE
       IN trace' = Append(trace, IF p = ToolPid \/ p \in alive
                                 THEN "owner_running" ELSE "owner_dead")
    /\ pc' = "remove"
    /\ UNCHANGED <<fsVars, op, role, localVars, result, snap, prevCursor,
                   prevResult, prevOp>>

\* UnlockQuery where unlock_queue goes on to the receive lock although the
\* send lock's owner is running.
UnlockQuery_GoesOn ==
    /\ pc = "query"
    /\ LET p == CHOOSE x \in owner_pid : TRUE
       IN /\ trace' = Append(trace, IF p = ToolPid \/ p \in alive
                                    THEN "owner_running" ELSE "owner_dead")
          /\ IF IsRunning(p) THEN
                 IF op = "unlock_queue" /\ role = "send" THEN
                     /\ role' = "recv"
                     /\ pc' = "read"
                     /\ UNCHANGED result
                 ELSE
                     /\ Finish(StillLocking(p, LockFilename(role)))
                     /\ UNCHANGED role
             ELSE
                 pc' = "remove" /\ UNCHANGED <<result, role>>
    /\ UNCHANGED <<fsVars, op, localVars, snap, prevCursor, prevResult,
                   prevOp>>

\* unlock: the fresh process table is asked for owner_pid. The history
\* records whether the owner was running at this moment.
UnlockQuery ==
    /\ pc = "query"
    /\ LET p == CHOOSE x \in owner_pid : TRUE
       IN /\ trace' = Append(trace, IF p = ToolPid \/ p \in alive
                                    THEN "owner_running" ELSE "owner_dead")
          /\ IF IsRunning(p) THEN
                 Finish(StillLocking(p, LockFilename(role)))
             ELSE
                 pc' = "remove" /\ UNCHANGED result
    /\ UNCHANGED <<fsVars, op, role, localVars, snap, prevCursor,
                   prevResult, prevOp>>

\* UnlockRemove without the remove_file call.
UnlockRemove_KeepsFile ==
    /\ pc = "remove"
    /\ IF op = "unlock_queue" /\ role = "send" THEN
           /\ role' = "recv"
           /\ pc' = "read"
           /\ UNCHANGED result
       ELSE
           Finish(Ok) /\ UNCHANGED role
    /\ UNCHANGED <<fsVars, op, localVars, snap, trace, prevCursor,
                   prevResult, prevOp>>

\* UnlockRemove where unlock_queue returns after the send lock.
UnlockRemove_SendOnly ==
    /\ pc = "remove"
    /\ IF lock[role].exists THEN
           /\ lock' = [lock EXCEPT ![role] = NoFile]
           /\ trace' = Append(trace, "removed")
           /\ Finish(Ok)
       ELSE
           Finish(Err("NotFound")) /\ UNCHANGED <<lock, trace>>
    /\ UNCHANGED <<files, sendMeta, alive, ioFault, pending, op, role,
                   localVars, snap, prevCursor, prevResult, prevOp>>

\* UnlockRemove that removes the lock files of both roles.
UnlockRemove_BothRoles ==
    /\ pc = "remove"
    /\ IF lock[role].exists THEN
           /\ lock' = [r \in Roles |-> NoFile]
           /\ trace' = Append(trace, "removed")
           /\ IF op = "unlock_queue" /\ role = "send" THEN
                  /\ role' = "recv"
                  /\ pc' = "read"
                  /\ UNCHANGED result
              ELSE
                  Finish(Ok) /\ UNCHANGED role
       ELSE
           Finish(Err("NotFound")) /\ UNCHANGED <<lock, role, trace>>
    /\ UNCHANGED <<files, sendMeta, alive, ioFault, pending, op, localVars,
                   snap, prevCursor, prevResult, prevOp>>

\* unlock: remove_file(lock_filename)?; unlock_queue goes on to the receive
\* lock after the send lock, and returns the first error.
UnlockRemove ==
    /\ pc = "remove"
    /\ IF lock[role].exists THEN
           /\ lock' = [lock EXCEPT ![role] = NoFile]
           /\ trace' = Append(trace, "removed")
           /\ IF op = "unlock_queue" /\ role = "send" THEN
                  /\ role' = "recv"
                  /\ pc' = "read"
                  /\ UNCHANGED result
              ELSE
                  Finish(Ok) /\ UNCHANGED role
       ELSE
           Finish(Err("NotFound")) /\ UNCHANGED <<lock, role, trace>>
    /\ UNCHANGED <<files, sendMeta, alive, ioFault, pending, op, localVars,
                   snap, prevCursor, prevResult, prevOp>>

\* ---------------------------------------------------- guess_send_metadata

\* FileGuard::try_lock on lock file f by process p: fails when the file
\* exists, and creates it with p's identifier otherwise.
TryLockFails(f) == f.exists

TryLockCreates(p) == LockFile(LockContents(p))

\* Dropping a FileGuard removes its lock file.
GuardDropped == NoFile

\* FilePersistence::save replaces the persisted cursor by the given state.
Saved(state) == state

\* GuessTryLock that goes on when the lock cannot be taken.
GuessTryLock_IgnoresError ==
    /\ pc = "try_lock"
    /\ IF TryLockFails(lock["send"]) THEN
           UNCHANGED <<lock, trace>>
       ELSE
           /\ lock' = [lock EXCEPT !["send"] = TryLockCreates(ToolPid)]
           /\ trace' = Append(trace, "lock")
    /\ guard' = TRUE
    /\ pc' = "read_dir"
    /\ UNCHANGED <<files, sendMeta, alive, ioFault, pending, op, role,
                   owner_pid, max_segment, position, result, snap,
                   prevCursor, prevResult, prevOp>>

\* GuessTryLock that binds the guard to `_`: the guard is dropped, and the
\* lock file removed, before the scan.
GuessTryLock_DropsAtOnce ==
    /\ pc = "try_lock"
    /\ IF TryLockFails(lock["send"]) THEN
           Finish(Err("LockError")) /\ UNCHANGED trace
       ELSE
           /\ trace' = <<"lock", "release">>
           /\ pc' = "read_dir"
           /\ UNCHANGED result
    /\ UNCHANGED <<files, lock, sendMeta, alive, ioFault, pending, op, role,
                   owner_pid, guard, max_segment, position, snap, prevCursor,
                   prevResult, prevOp>>

\* GuessTryLock that waits until the lock file is gone.
GuessTryLock_Waits ==
    /\ pc = "try_lock"
    /\ ~TryLockFails(lock["send"])
    /\ lock' = [lock EXCEPT !["send"] = TryLockCreates(ToolPid)]
    /\ guard' = TRUE
    /\ trace' = Append(trace, "lock")
    /\ pc' = "read_dir"
    /\ UNCHANGED <<files, sendMeta, alive, ioFault, pending, op, role,
                   owner_pid, max_segment, position, result, snap, prevCursor,
                   prevResult, prevOp>>

\* FileGuard::try_lock(send_lock_filename(base))?: creates the lock file with
\* the caller's identifier, or fails when the lock file exists.
GuessTryLock ==
    /\ pc = "try_lock"
    /\ IF TryLockFails(lock["send"]) THEN
           Finish(Err("LockError")) /\ UNCHANGED <<lock, guard, trace>>
       ELSE
           /\ lock' = [lock EXCEPT !["send"] = TryLockCreates(ToolPid)]
           /\ guard' = TRUE
           /\ trace' = Append(trace, "lock")
           /\ pc' = "read_dir"
           /\ UNCHANGED result
    /\ UNCHANGED <<files, sendMeta, alive, ioFault, pending, op, role,
                   owner_pid, max_segment, position, snap, prevCursor,
                   prevResult, prevOp>>

\* The entries the scan takes for segment files.
SegmentEntries(names) == {n \in names : Extension(n) = QExt}

\* GreatestSegment that keeps the least stem instead of the greatest.
GreatestSegment_Least(names) ==
    LET stems == UNION {ParseU64(FileStem(n)) : n \in SegmentEntries(names)}
    IN IF stems = {} THEN 0 ELSE CHOOSE x \in stems : \A y \in stems : x <= y

\* The loop over read_dir: the greatest parsed stem, starting from 0.
GreatestSegment(names) ==
    Max({0} \cup UNION {ParseU64(FileStem(n)) : n \in SegmentEntries(names)})

\* ScanPanics where the loop also panics when it finds no segment entry.
ScanPanics_OnEmpty(names) ==
    \/ SegmentEntries(names) = {}
    \/ \E n \in SegmentEntries(names) : ParseU64(FileStem(n)) = {}

\* ScanPanics where the loop skips a segment entry whose stem does not parse.
ScanPanics_Never(names) == FALSE

\* The loop panics on a segment entry whose stem does not parse.
ScanPanics(names) ==
    \E n \in SegmentEntries(names) : ParseU64(FileStem(n)) = {}

\* Leave that forgets the guard: the call ends without dropping it.
Leave_KeepsLock(r) ==
    /\ pc' = "done"
    /\ result' = r

\* An early return (`?`) or a panic that unwinds: `result` is kept while
\* the live guard is dropped.
Leave(r) ==
    /\ pc' = "drop"
    /\ result' = r

\* read_dir(base)? and the loop that finds max_segment. A panic unwinds and
\* drops the guard, or aborts the process, as the build chooses.
GuessReadDir ==
    /\ pc = "read_dir"
    /\ IF ioFault = "read_dir" THEN
           Leave(Err("IoError")) /\ UNCHANGED <<max_segment, trace>>
       ELSE IF ScanPanics(DirEntries) THEN
           /\ \/ Leave(Panic)
              \/ Finish(Panic)
           /\ UNCHANGED <<max_segment, trace>>
       ELSE
           /\ max_segment' = GreatestSegment(DirEntries)
           /\ trace' = Append(trace, "scan")
           /\ pc' = "metadata"
           /\ UNCHANGED result
    /\ UNCHANGED <<fsVars, op, role, owner_pid, guard, position, snap,
                   prevCursor, prevResult, prevOp>>

\* GuessMetadata that takes an absent segment file for an empty one.
GuessMetadata_AbsentIsEmpty ==
    /\ pc = "metadata"
    /\ LET name == SegmentFilename(max_segment)
       IN /\ position' = IF name \in DOMAIN files THEN files[name] ELSE 0
          /\ trace' = Append(trace, "length")
          /\ pc' = "open_send"
          /\ UNCHANGED result
    /\ UNCHANGED <<fsVars, op, role, owner_pid, guard, max_segment, snap,
                   prevCursor, prevResult, prevOp>>

\* metadata(base.join(format!("{}.q", max_segment)))?.len()
GuessMetadata ==
    /\ pc = "metadata"
    /\ LET name == SegmentFilename(max_segment)
       IN IF name \in DOMAIN files THEN
              /\ position' = files[name]
              /\ trace' = Append(trace, "length")
              /\ pc' = "open_send"
              /\ UNCHANGED result
          ELSE
              Leave(Err("NotFound")) /\ UNCHANGED <<position, trace>>
    /\ UNCHANGED <<fsVars, op, role, owner_pid, guard, max_segment, snap,
                   prevCursor, prevResult, prevOp>>

\* persistence.open_send(base)?
GuessOpenSend ==
    /\ pc = "open_send"
    /\ IF ioFault = "open_send" THEN
           Leave(Err("IoError"))
       ELSE
           pc' = "save" /\ UNCHANGED result
    /\ UNCHANGED <<fsVars, op, role, localVars, snap, trace, prevCursor,
                   prevResult, prevOp>>

\* GuessSave that adds the position to the one persisted before.
GuessSave_Accumulates ==
    /\ pc = "save"
    /\ IF ioFault = "save" THEN
           Leave(Err("IoError")) /\ UNCHANGED <<sendMeta, trace>>
       ELSE
           /\ sendMeta' =
                  Saved(QueueState(max_segment, position + sendMeta.position))
           /\ trace' = Append(trace, "persist")
           /\ Leave(Ok)
    /\ UNCHANGED <<files, lock, alive, ioFault, pending, op, role, localVars,
                   snap, prevCursor, prevResult, prevOp>>

\* persistence.save(&queue_state)?
GuessSave ==
    /\ pc = "save"
    /\ IF ioFault = "save" THEN
           Leave(Err("IoError")) /\ UNCHANGED <<sendMeta, trace>>
       ELSE
           /\ sendMeta' = Saved(QueueState(max_segment, position))
           /\ trace' = Append(trace, "persist")
           /\ Leave(Ok)
    /\ UNCHANGED <<files, lock, alive, ioFault, pending, op, role, localVars,
                   snap, prevCursor, prevResult, prevOp>>

\* drop(lock), also on every early return: the guard removes the lock file.
GuessDrop ==
    /\ pc = "drop"
    /\ lock' = [lock EXCEPT !["send"] = GuardDropped]
    /\ guard' = FALSE
    /\ trace' = Append(trace, "release")
    /\ pc' = "done"
    /\ UNCHANGED <<files, sendMeta, alive, ioFault, pending, op, role,
                   owner_pid, max_segment, position, result, snap,
                   prevCursor, prevResult, prevOp>>

\* The caller takes the result and is ready for its next call. A panic has
\* ended the caller.
Resume ==
    /\ pc = "done"
    /\ result.kind # "Panic"
    /\ pc' = "idle"
    /\ op' = "none"
    /\ role' = "send"
    /\ owner_pid' = {}
    /\ max_segment' = 0
    /\ position' = 0
    /\ result' = NoResult
    /\ trace' = <<>>
    /\ UNCHANGED <<fsVars, guard>>

\* The end of a call of a serialised run; the history keeps the cursor of a
\* reconstruction, and the operation and the result of the call, for the
\* call that follows.
Return ==
    /\ Resume
    /\ prevCursor' = IF op # "guess_send_metadata" THEN NoMeta
                     ELSE IF result = Ok THEN sendMeta
                     ELSE prevCursor
    /\ prevResult' = result
    /\ prevOp' = op
    /\ snap' = NoSnap

\* ------------------------------------------------------- other processes

callerVars == <<pc, op, role, owner_pid, guard, max_segment, position,
                result, snap, trace>>

\* The greatest segment number among the well-named segment files.
NewestOnDisk(f) ==
    Max({n \in SegNums : SegmentFilename(n) \in DOMAIN f})

HasSegments(f) == \E n \in SegNums : SegmentFilename(n) \in DOMAIN f

HoldsLock(p, r) == p \in alive /\ lock[r] = LockFile(LockContents(p))

\* A running process dies; a lock it holds is orphaned.
Crash(p) ==
    /\ p \in alive
    /\ alive' = alive \ {p}
    /\ prevResult' = NoResult
    /\ prevOp' = "none"
    /\ UNCHANGED <<files, lock, sendMeta, ioFault, pending, callerVars,
                   prevCursor>>

\* A running sender or receiver takes a free lock (FileGuard::try_lock).
Acquire(p, r) ==
    /\ p \in alive
    /\ ~TryLockFails(lock[r])
    /\ lock' = [lock EXCEPT ![r] = TryLockCreates(p)]
    /\ prevResult' = NoResult
    /\ prevOp' = "none"
    /\ UNCHANGED <<files, sendMeta, alive, ioFault, pending, callerVars,
                   prevCursor>>

\* The owner releases its lock (the guard is dropped).
Release(p, r) ==
    /\ HoldsLock(p, r)
    /\ lock' = [lock EXCEPT ![r] = GuardDropped]
    /\ prevResult' = NoResult
    /\ prevOp' = "none"
    /\ UNCHANGED <<files, sendMeta, alive, ioFault, pending, callerVars,
                   prevCursor>>

\* The sender that holds the send lock appends a byte to the newest segment.
SenderAppend(p) ==
    /\ HoldsLock(p, "send")
    /\ HasSegments(files)
    /\ LET name == SegmentFilename(NewestOnDisk(files))
       IN /\ files[name] < MaxLen
          /\ files' = [files EXCEPT ![name] = @ + 1]
    /\ prevResult' = NoResult
    /\ prevOp' = "none"
    /\ prevCursor' = NoMeta
    /\ UNCHANGED <<lock, sendMeta, alive, ioFault, pending, callerVars>>

\* The sender that holds the send lock starts the next segment file once the
\* newest is full.
SenderRoll(p) ==
    /\ HoldsLock(p, "send")
    /\ HasSegments(files) =>
          files[SegmentFilename(NewestOnDisk(files))] = MaxLen
    /\ LET next == IF HasSegments(files) THEN NewestOnDisk(files) + 1 ELSE 0
       IN /\ next <= MaxSeg
          /\ files' = files @@ (SegmentFilename(next) :> 0)
    /\ prevResult' = NoResult
    /\ prevOp' = "none"
    /\ prevCursor' = NoMeta
    /\ UNCHANGED <<lock, sendMeta, alive, ioFault, pending, callerVars>>

\* Another recovery tool runs unlock on role r: it reads the lock file and
\* finds no running process for the owner.
OtherUnlockQuery(r) ==
    /\ pending[r] < NumTools
    /\ \E p \in OtherPids :
         /\ lock[r] = LockFile(LockContents(p))
         /\ ~IsRunning(p)
    /\ pending' = [pending EXCEPT ![r] = @ + 1]
    /\ UNCHANGED <<files, lock, sendMeta, alive, ioFault, callerVars,
                   prevCursor, prevResult, prevOp>>

\* ... and, in a later step, removes the lock file.
OtherUnlockRemove(r) ==
    /\ pending[r] > 0
    /\ pending' = [pending EXCEPT ![r] = @ - 1]
    /\ lock' = [lock EXCEPT ![r] = NoFile]
    /\ prevResult' = NoResult
    /\ prevOp' = "none"
    /\ UNCHANGED <<files, sendMeta, alive, ioFault, callerVars, prevCursor>>

\* ---------------------------------------------------------- specifications

UnlockOps == {"unlock_for_sending", "unlock_for_receiving", "unlock_queue"}

GuessOps == {"guess_send_metadata", "unlock_for_sending"}

UnlockSteps ==
    \/ UnlockRead
    \/ UnlockQuery
    \/ UnlockRemove

GuessSteps ==
    \/ GuessTryLock
    \/ GuessReadDir
    \/ GuessMetadata
    \/ GuessOpenSend
    \/ GuessSave
    \/ GuessDrop

\* The lock operations, serialised: the other processes act between calls.
NextUnlock ==
    \/ \E o \in UnlockOps : Call(o)
    \/ UnlockSteps
    \/ Return
    \/ \E p \in OtherPids : pc = "idle" /\ Crash(p)
    \/ \E p \in OtherPids, r \in Roles : pc = "idle" /\ Acquire(p, r)
    \/ \E p \in OtherPids, r \in Roles : pc = "idle" /\ Release(p, r)

SpecUnlock == InitUnlock /\ [][NextUnlock]_vars

\* The reconstruction (and the send unlock that precedes it in a recovery),
\* serialised: senders act between calls.
NextGuess ==
    \/ \E o \in GuessOps : Call(o)
    \/ UnlockSteps
    \/ GuessSteps
    \/ Return
    \/ \E p \in OtherPids : pc = "idle" /\ Crash(p)
    \/ \E p \in OtherPids : pc = "idle" /\ Acquire(p, "send")
    \/ \E p \in OtherPids : pc = "idle" /\ Release(p, "send")
    \/ \E p \in OtherPids : pc = "idle" /\ SenderAppend(p)
    \/ \E p \in OtherPids : pc = "idle" /\ SenderRoll(p)

SpecGuess == InitGuess /\ [][NextGuess]_vars

\* One call of the caller; every other process may act before it, between
\* any two of its steps and after it.
NextConc ==
    \/ \E o \in Ops :
          Invoke(o) /\ UNCHANGED <<snap, prevCursor, prevResult, prevOp>>
    \/ UnlockSteps
    \/ GuessSteps
    \/ \E p \in OtherPids : Crash(p)
    \/ \E p \in OtherPids, r \in Roles : Acquire(p, r)
    \/ \E p \in OtherPids, r \in Roles : Release(p, r)
    \/ \E p \in OtherPids : SenderAppend(p)
    \/ \E p \in OtherPids : SenderRoll(p)
    \/ \E r \in Roles : OtherUnlockQuery(r)
    \/ \E r \in Roles : OtherUnlockRemove(r)

SpecConc == InitConc /\ [][NextConc]_vars

\* One call of one of the four operations on a directory that no other
\* process changes. The caller's thread keeps running: a step of the call
\* that can be taken is taken.
NextLive ==
    \/ \E o \in Ops : Call(o)
    \/ UnlockSteps
    \/ GuessSteps

SpecLive ==
    InitLive /\ [][NextLive]_vars /\ WF_vars(UnlockSteps \/ GuessSteps)

\* ------------------------------------------------------------ properties

AllPids == OtherPids \cup {ToolPid}

\* A process with identifier p exists.
ProcessExists(p) == p = ToolPid \/ p \in alive

\* The lock file f names p as its owner.
Records(f, p) == f = LockFile(LockContents(p))

\* f is a stale lock file: its owner does not exist.
Stale(f) == \E p \in AllPids : Records(f, p) /\ ~ProcessExists(p)

\* f is a live lock file: its owner exists.
Live(f) == \E p \in AllPids : Records(f, p) /\ ProcessExists(p)

\* A call of unlock_for_sending or unlock_for_receiving has ended.
UnlockDone ==
    pc = "done" /\ op \in {"unlock_for_sending", "unlock_for_receiving"}

\* C1: unlock_for_sending / unlock_for_receiving on a lock file whose owner
\* is no running process removes that lock file and returns success.
C1_StaleLockRemoved ==
    (UnlockDone /\ Stale(snap.lock[role])) =>
        (result = Ok /\ ~lock[role].exists)

C1_Witness ==
    /\ UnlockDone
    /\ op = "unlock_for_receiving"
    /\ Stale(snap.lock["recv"])
    /\ ~lock["recv"].exists
    /\ result = Ok

\* C2: unlock_for_sending / unlock_for_receiving on a lock file whose owner
\* is a running process changes nothing in the directory and returns an
\* error of kind Other that names the owner and the lock file's path.
C2_LiveLockKept ==
    \A p \in AllPids :
        (UnlockDone /\ Records(snap.lock[role], p) /\ ProcessExists(p)) =>
            /\ result = [kind |-> "Other", pid |-> {p},
                         path |-> LockFilename(role)]
            /\ lock = snap.lock
            /\ files = snap.files
            /\ sendMeta = snap.sendMeta

C2_Witness ==
    /\ UnlockDone
    /\ op = "unlock_for_sending"
    /\ Live(snap.lock["send"])
    /\ lock["send"].exists
    /\ result.kind = "Other"

\* C7: unlock_queue on two stale locks removes both lock files and returns
\* success; on a live send lock and a stale receive lock it removes neither
\* and returns the send check's error.
C7_UnlockQueue ==
    (pc = "done" /\ op = "unlock_queue") =>
        /\ (Stale(snap.lock["send"]) /\ Stale(snap.lock["recv"])) =>
               /\ result = Ok
               /\ ~lock["send"].exists
               /\ ~lock["recv"].exists
        /\ \A p \in AllPids :
               (/\ Records(snap.lock["send"], p)
                /\ ProcessExists(p)
                /\ Stale(snap.lock["recv"])) =>
                   /\ lock = snap.lock
                   /\ result = [kind |-> "Other", pid |-> {p},
                                path |-> send_lock_filename]

C7_Witness ==
    /\ pc = "done"
    /\ op = "unlock_queue"
    /\ Live(snap.lock["send"])
    /\ Stale(snap.lock["recv"])
    /\ lock = snap.lock
    /\ result.kind = "Other"

C7_WitnessBothStale ==
    /\ pc = "done"
    /\ op = "unlock_queue"
    /\ Stale(snap.lock["send"])
    /\ Stale(snap.lock["recv"])
    /\ result = Ok

\* A call of guess_send_metadata has ended.
GuessDone == pc = "done" /\ op = "guess_send_metadata"

\* The call's effects so far.
Happened(e) == \E i \in 1..Len(trace) : trace[i] = e

\* The well-named segment files of directory f.
SegmentsOf(f) == {n \in SegNums : SegmentFilename(n) \in DOMAIN f}

\* C3: when guess_send_metadata succeeds, the persisted cursor's segment is
\* the greatest N with a file <N>.q and its position is that file's length
\* as the scan found it; files without the .q extension do not count.
C3_CursorAtEndOfNewest ==
    (GuessDone /\ result = Ok) =>
        /\ SegmentsOf(snap.files) # {}
        /\ LET n == Max(SegmentsOf(snap.files))
           IN sendMeta = [exists |-> TRUE, segment |-> n,
                          position |-> snap.files[SegmentFilename(n)]]

C3_Witness ==
    /\ GuessDone
    /\ result = Ok
    /\ NineTxt \in DOMAIN files
    /\ SegmentsOf(files) = SegNums
    /\ files[SegmentFilename(0)] = MaxLen
    /\ files[SegmentFilename(MaxSeg)] = 0
    /\ sendMeta = [exists |-> TRUE, segment |-> MaxSeg, position |-> 0]

\* C4: when guess_send_metadata returns, with success or with an error of the
\* scan, of the state's opening or of its saving, it holds the send lock no
\* more: the lock file it created is gone.
C4_LockReleasedOnReturn ==
    (GuessDone /\ result.kind # "Panic") =>
        /\ ~guard
        /\ Happened("lock") => ~lock["send"].exists

C4_Witness ==
    /\ GuessDone
    /\ Happened("lock")
    /\ result = Err("IoError")
    /\ ioFault = "save"
    /\ ~lock["send"].exists

\* C5: when a running process holds the send lock, guess_send_metadata
\* returns an error, persists no cursor and leaves the holder's lock file.
C5_HeldLockRefused ==
    (GuessDone /\ Live(snap.lock["send"])) =>
        /\ result.kind \notin {"Ok", "Panic", "none"}
        /\ sendMeta = snap.sendMeta
        /\ lock = snap.lock
        /\ ~Happened("persist")

C5_Witness ==
    /\ GuessDone
    /\ Live(snap.lock["send"])
    /\ snap.sendMeta.exists
    /\ result = Err("LockError")
    /\ lock["send"] = snap.lock["send"]

\* The order of a reconstruction's effects.
GuessOrder == <<"lock", "scan", "length", "persist", "release">>

Place(e) == CHOOSE i \in 1..Len(GuessOrder) : GuessOrder[i] = e

\* C8: within a call of guess_send_metadata the lock is taken, then the
\* directory scanned and the newest segment's length read, then the cursor
\* persisted, then the lock released, in this order; the scan and the
\* persistence happen only while the caller holds the send lock.
C8_LockScanPersistRelease ==
    op = "guess_send_metadata" =>
        /\ \A i \in 1..Len(trace) : \E j \in 1..Len(GuessOrder) :
               trace[i] = GuessOrder[j]
        /\ \A i, j \in 1..Len(trace) :
               i < j => Place(trace[i]) < Place(trace[j])
        /\ (trace # <<>>) => trace[1] = "lock"
        /\ Happened("persist") => (Happened("scan") /\ Happened("length"))
        /\ (pc = "done" /\ result = Ok) => trace = GuessOrder
        /\ pc \in {"read_dir", "metadata", "open_send", "save"} =>
               /\ guard
               /\ lock["send"] = LockFile(LockContents(ToolPid))
               /\ ~Happened("release")

C8_Witness ==
    /\ GuessDone
    /\ result = Ok
    /\ trace = GuessOrder

\* C9: a second guess_send_metadata on unchanged segment files leaves the
\* cursor that the first one persisted.
C9_SecondRunSameCursor ==
    (GuessDone /\ prevCursor.exists) => sendMeta = prevCursor

C9_Witness ==
    /\ GuessDone
    /\ result = Ok
    /\ Happened("persist")
    /\ prevCursor.exists
    /\ prevCursor.position > 0
    /\ sendMeta = prevCursor

\* The directory holds no file with the .q extension.
NoQFiles(f) == DOMAIN f \subseteq {NineTxt}

\* C10: on a directory without .q files guess_send_metadata does not panic;
\* the scan resolves segment 0, the call returns the not-found error of the
\* missing 0.q once it has the lock and has read the directory, it persists
\* nothing, and a repeated call returns what the call before returned.
C10_EmptyDirectory ==
    (GuessDone /\ NoQFiles(snap.files)) =>
        /\ result.kind \notin {"Panic", "Ok", "none"}
        /\ Happened("scan") => (max_segment = 0 /\ result = Err("NotFound"))
        /\ (~snap.lock["send"].exists /\ ioFault # "read_dir") =>
               result = Err("NotFound")
        /\ sendMeta = snap.sendMeta
        /\ prevOp = "guess_send_metadata" => result = prevResult

C10_Witness ==
    /\ GuessDone
    /\ NoQFiles(snap.files)
    /\ Happened("scan")
    /\ max_segment = 0
    /\ result = Err("NotFound")
    /\ prevOp = "guess_send_metadata"
    /\ prevResult = Err("NotFound")


\* The caller's unlock removes the lock file of its role in this step.
RecoveryDeletes ==
    /\ pc = "remove"
    /\ pc' # "remove"
    /\ lock[role].exists
    /\ ~lock'[role].exists

\* C6 as claimed: recovery never deletes a lock file whose recorded owner is
\* a running process at the moment of the deletion.
C6_NeverDeletesLiveLock ==
    [][RecoveryDeletes => ~Live(lock[role])]_vars

\* C6 as amended: recovery deletes a lock file only after it has read an
\* owner from it and its own query of the process table, the last thing it
\* did before, found no running process for that owner; and a lock file it
\* read from a running owner it does not delete.
C6_DeletesAfterOwnerFoundDead ==
    [][RecoveryDeletes =>
         /\ trace # <<>>
         /\ trace[Len(trace)] = "owner_dead"
         /\ owner_pid # {}]_vars

C6_Witness ==
    /\ pc = "remove"
    /\ op = "unlock_for_sending"
    /\ trace = <<"owner_dead">>
    /\ Live(lock["send"])


\* The directory holds a .q file whose stem is no unsigned integer.
BadSegmentName(f) ==
    \E n \in DOMAIN f : Extension(n) = QExt /\ ParseU64(FileStem(n)) = {}

\* C11: with a .q file whose stem is no unsigned integer in the directory,
\* guess_send_metadata never succeeds, never resolves a greatest segment from
\* the other files and persists nothing; once it has the send lock and has
\* read the directory it panics.
C11_BadSegmentNameIsFatal ==
    (GuessDone /\ BadSegmentName(snap.files)) =>
        /\ result # Ok
        /\ ~Happened("scan")
        /\ ~Happened("persist")
        /\ sendMeta = snap.sendMeta
        /\ (~snap.lock["send"].exists /\ ioFault # "read_dir") =>
               result = Panic

C11_Witness ==
    /\ GuessDone
    /\ FooQ \in DOMAIN snap.files
    /\ SegmentsOf(snap.files) = SegNums
    /\ Happened("lock")
    /\ result = Panic
    /\ sendMeta = snap.sendMeta

\* f is a malformed lock file: a text whose part after the 4-byte prefix is
\* no process identifier.
Malformed(f) ==
    /\ f.exists
    /\ IsUtf8(f.contents)
    /\ ParsePid(SubSeq(f.contents, PrefixLen + 1, Len(f.contents))) = {}

C13_AbsentLockNotFound ==
    UnlockDone =>
        /\ ~snap.lock[role].exists =>
               /\ result = Err("NotFound")
               /\ lock = snap.lock
               /\ files = snap.files
               /\ sendMeta = snap.sendMeta
        /\ (prevOp = op /\ prevResult \in {Ok, Err("NotFound")}) =>
               result = Err("NotFound")

C13_Witness ==
    /\ UnlockDone
    /\ op = "unlock_for_sending"
    /\ prevOp = "unlock_for_sending"
    /\ prevResult = Ok
    /\ result = Err("NotFound")
    /\ lock = snap.lock

\* The send lock file records the caller as its owner.
HeldByCaller == lock["send"] = LockFile(LockContents(ToolPid))

\* The cursor at the end of the newest segment file of directory f.
EndOfNewest(f) ==
    [exists |-> TRUE, segment |-> NewestOnDisk(f),
     position |-> f[SegmentFilename(NewestOnDisk(f))]]

\* guess_send_metadata releases its lock in this step, having succeeded.
ReleasesAfterSuccess ==
    /\ op = "guess_send_metadata"
    /\ pc = "drop"
    /\ pc' = "done"
    /\ result = Ok

\* C14 as claimed: between the lock acquisition and the lock release of a
\* guess_send_metadata call no segment file changes, and on success the
\* persisted cursor is the end of the newest segment file at the release.
C14_NoSegmentChangeUnderLock ==
    [][/\ guard => files' = files
       /\ ReleasesAfterSuccess => sendMeta = EndOfNewest(files)]_vars

\* C14 as amended: the acquisition leaves the send lock file recording the
\* caller; until the release only another recovery tool's removal takes that
\* file away; while the file records the caller no segment file changes; and
\* a call that succeeds with the file still in place has persisted the end
\* of the newest segment file as it stands at the release.
C14_NoSegmentChangeWhileLockFileStays ==
    [][/\ (~guard /\ guard') => HeldByCaller'
       /\ (guard /\ guard' /\ HeldByCaller /\ ~HeldByCaller') =>
              pending'["send"] = pending["send"] - 1
       /\ (guard /\ HeldByCaller) => files' = files
       /\ (ReleasesAfterSuccess /\ HeldByCaller) =>
              sendMeta = EndOfNewest(files)]_vars

C14_Witness ==
    /\ op = "guess_send_metadata"
    /\ pc = "drop"
    /\ result = Ok
    /\ HeldByCaller
    /\ alive # {}
    /\ pending["send"] > 0
    /\ sendMeta = EndOfNewest(files)
    /\ sendMeta.position = MaxLen

\* A call of unlock_queue has ended.
UnlockQueueDone == pc = "done" /\ op = "unlock_queue"

\* C15: when the send check of unlock_queue fails (the send lock file is
\* absent, is no text, or has a running owner), the receive lock is not
\* examined, both lock files stay as they were, also a stale receive lock,
\* and the send check's error is returned.
C15_SendFailureStopsUnlockQueue ==
    UnlockQueueDone =>
        /\ ~snap.lock["send"].exists =>
               /\ result = Err("NotFound")
               /\ lock = snap.lock
               /\ trace = <<>>
        /\ (snap.lock["send"].exists /\ ~IsUtf8(snap.lock["send"].contents)) =>
               /\ result = Err("InvalidData")
               /\ lock = snap.lock
               /\ trace = <<>>
        /\ \A p \in AllPids :
               (Records(snap.lock["send"], p) /\ ProcessExists(p)) =>
                   /\ result = [kind |-> "Other", pid |-> {p},
                                path |-> send_lock_filename]
                   /\ lock = snap.lock
                   /\ trace = <<"owner_running">>

C15_Witness ==
    /\ UnlockQueueDone
    /\ ~snap.lock["send"].exists
    /\ Stale(snap.lock["recv"])
    /\ lock["recv"] = snap.lock["recv"]
    /\ result = Err("NotFound")

OtherRole(r) == IF r = "send" THEN "recv" ELSE "send"

\* The deletions the call has made so far.
Removals == {i \in 1..Len(trace) : trace[i] = "removed"}

\* C16: a call of unlock_for_sending or unlock_for_receiving deletes at most
\* one file and writes none: the lock file of its role is as the call found
\* it or is gone, and the other role's lock file, the other files of the
\* directory and the persisted cursor are as the call found them, at every
\* point of the call and in every outcome.
C16_UnlockFrame ==
    (pc # "idle" /\ op \in {"unlock_for_sending", "unlock_for_receiving"}) =>
        /\ lock[role] \in {snap.lock[role], NoFile}
        /\ lock[OtherRole(role)] = snap.lock[OtherRole(role)]
        /\ files = snap.files
        /\ sendMeta = snap.sendMeta
        /\ Cardinality(Removals) <= 1
        /\ lock[role] # snap.lock[role] => Cardinality(Removals) = 1

C16_Witness ==
    /\ UnlockDone
    /\ op = "unlock_for_sending"
    /\ result = Ok
    /\ Cardinality(Removals) = 1
    /\ ~lock["send"].exists
    /\ Stale(lock["recv"])
    /\ sendMeta.exists
    /\ files # <<>>

ErrorKinds == {"NotFound", "InvalidData", "Other", "IoError", "LockError"}

\* The call found a lock file or a .q file name that does not parse.
ParseFailure ==
    IF op = "guess_send_metadata" THEN BadSegmentName(snap.files)
    ELSE Malformed(snap.lock[role])

\* The call has ended in success, in an error, or in a panic over a parse
\* failure.
Outcome ==
    \/ result = Ok
    \/ result.kind \in ErrorKinds
    \/ result = Panic /\ ParseFailure

\* C17: every call of the four operations ends, in success, in an error or
\* in a panic caused by a lock file or a .q file name that does not parse;
\* no step of a call is taken twice for the same file (no retry, no wait).
C17_EveryCallEnds ==
    /\ (pc \notin {"idle", "done"}) ~> (pc = "done" /\ Outcome)
    /\ [](pc = "done" => Outcome)
    /\ [](Len(trace) <= Len(GuessOrder))

C17_Witness ==
    /\ pc = "done"
    /\ op = "unlock_queue"
    /\ role = "recv"
    /\ Happened("removed")
    /\ result = Panic
    /\ ParseFailure

\* C18: when guess_send_metadata holds the send lock and the directory
\* cannot be read, or the file <max_segment>.q of the greatest segment it
\* computed is absent, it returns that error and writes no cursor: the
\* persisted cursor is the one the call found.
C18_ScanFailureWritesNothing ==
    (GuessDone /\ Happened("lock")) =>
        /\ ioFault = "read_dir" =>
               /\ result = Err("IoError")
               /\ ~Happened("scan")
               /\ ~Happened("persist")
               /\ sendMeta = snap.sendMeta
        /\ (Happened("scan")
              /\ SegmentFilename(max_segment) \notin DOMAIN snap.files) =>
               /\ result = Err("NotFound")
               /\ ~Happened("persist")
               /\ sendMeta = snap.sendMeta

C18_Witness ==
    /\ GuessDone
    /\ Happened("lock")
    /\ Happened("scan")
    /\ SegmentFilename(max_segment) \notin DOMAIN snap.files
    /\ snap.sendMeta.exists
    /\ sendMeta = snap.sendMeta
    /\ result = Err("NotFound")

C18_WitnessReadDir ==
    /\ GuessDone
    /\ Happened("lock")
    /\ ioFault = "read_dir"
    /\ snap.sendMeta.exists
    /\ sendMeta = snap.sendMeta
    /\ result = Err("IoError")

\* C19: unlock_queue on a stale send lock and a receive lock whose owner is
\* running deletes the send lock file, leaves the receive lock file and
\* returns the receive check's error: the deletion stays although the call
\* fails.
C19_UnlockQueuePartialEffect ==
    \A p \in AllPids :
        (/\ UnlockQueueDone
         /\ Stale(snap.lock["send"])
         /\ Records(snap.lock["recv"], p)
         /\ ProcessExists(p)) =>
            /\ ~lock["send"].exists
            /\ lock["recv"] = snap.lock["recv"]
            /\ result = [kind |-> "Other", pid |-> {p},
                         path |-> recv_lock_filename]

C19_Witness ==
    /\ UnlockQueueDone
    /\ Stale(snap.lock["send"])
    /\ Live(snap.lock["recv"])
    /\ ~lock["send"].exists
    /\ lock["recv"] = snap.lock["recv"]
    /\ result.kind = "Other"
    /\ result.path = recv_lock_filename

\* The call before was an unlock_for_sending that succeeded, and no other
\* process has acted since.
AfterSendUnlock == prevOp = "unlock_for_sending" /\ prevResult = Ok

\* C20: on a directory with a stale send lock and at least one segment file,
\* whose .q files are all well named and whose filesystem operations
\* succeed, with no other process acting, unlock_for_sending succeeds and
\* removes the lock file, and the guess_send_metadata that follows succeeds
\* and leaves no send lock file, so that a sender can take the lock, and the
\* persisted cursor at the end of the newest segment file.
C20_CrashedSenderRecovered ==
    /\ (pc = "done" /\ op = "unlock_for_sending"
          /\ Stale(snap.lock["send"])) =>
           /\ result = Ok
           /\ ~lock["send"].exists
    /\ (GuessDone /\ AfterSendUnlock /\ HasSegments(snap.files)
          /\ ~BadSegmentName(snap.files) /\ ioFault = "none") =>
           /\ result = Ok
           /\ ~TryLockFails(lock["send"])
           /\ files = snap.files
           /\ sendMeta = EndOfNewest(files)

C20_Witness ==
    /\ GuessDone
    /\ AfterSendUnlock
    /\ SegmentsOf(snap.files) = SegNums
    /\ result = Ok
    /\ ~lock["send"].exists
    /\ sendMeta = [exists |-> TRUE, segment |-> MaxSeg, position |-> MaxLen]
    /\ sendMeta # snap.sendMeta

====
